---- MODULE Spec2Model ----
(***************************************************************************)
(* Model of the adversary gate replay guard: AdversaryGateGuard.processEvent*)
(* running concurrently over InMemoryTaskStore and InMemoryEventLedger.     *)
(* Every store or ledger call is an await point, so one action of the model *)
(* is one store/ledger operation together with the synchronous code that    *)
(* follows it up to the next await.                                         *)
(***************************************************************************)
EXTENDS Integers, Sequences, FiniteSets, TLC

\* ---------------------------------------------------------------- bounds
MaxVersion == 3
MaxCap == 3
MaxCalls == 2
MaxDirect == 1
MaxSeqCalls == 3
MaxKeys == 12
BigCap == 11
MaxRemarks == 1
MaxTime == 1
MaxTrackerSteps == 5
MaxTags == 2
MaxTicks == 2

\* ------------------------------------------------------- program constants
ADVERSARY_INFLIGHT_STALE_MS == 600000

\* ------------------------------------------------------------ value sets
Procs == {"p1", "p2"}
EventIds == {"e1", "e2"}
TaskIds == {"t1", "t2"}

TASK_STATUSES ==
  {"backlog", "needs_clarification", "todo", "in_progress", "review", "done"}

TERMINAL_STATES_NoDone == {"backlog"}

TERMINAL_STATES == {"done"}

\* The four actions of AdversaryGateAction, plus one value outside the
\* enumeration (the type is erased at run time, so a producer can send it).
KnownActions == {"challenge", "reject", "request_changes", "block"}
Actions == KnownActions \cup {"escalate"}

\* The absent snapshot (getTask's null).
null == [status |-> "null", version |-> 0, updatedAt |-> 0]

NoResult == [applied |-> FALSE, reason |-> "pending", eventId |-> "none", taskId |-> "none"]

VARIABLES
  tasks,            \* InMemoryTaskStore.tasks : taskId -> snapshot | null
  processed,        \* InMemoryEventLedger.processed, in insertion order
  maxEntries,       \* InMemoryEventLedger.maxEntries
  now,              \* the clock read by Date.now() / new Date(); Spec holds it
                    \* still, as no branch of the guard or the stores reads a timestamp
  evTask,           \* event.taskId of each eventId
  evAction,         \* event.action of each eventId
  pc,               \* where each processEvent invocation stands
  ev,               \* the eventId each invocation was called with
  expectedVersion,  \* task.version observed at lookup
  applied,          \* the local `applied` of processEvent
  result,           \* the EventProcessingResult returned
  doneSince,        \* history: target was done at the call and ever since
  wrote,            \* history: "none", or how this invocation's updateTask wrote:
                    \* "matched" (stored version as observed) or "stale"
  appliedCount,     \* history: applied=true results per eventId (capped at 2)
  fresh,            \* history: each invocation slot used at most once, no direct write
  conflicted,       \* history: events whose delivery ended in a conflict, still in the ledger
  calls,            \* number of processEvent invocations so far
  directs,          \* number of direct store writes so far
  marked,           \* history: how each eventId's ledger entry was last marked
                    \* ("none" when it has no entry)
  lastMark,         \* history: the last markProcessed call: its id, the ids it evicted
  issued,           \* SpecLedger: number of distinct keys marked so far
  remarks,          \* SpecLedger: number of marks of a key that was marked before
  adversaryInFlightTaskIds,     \* guard-scheduler: the in-flight set
  adversaryInFlightTimestamps,  \* guard-scheduler: taskId -> timestamp (NoTimestamp: no entry)
  markedAt,         \* history: time of each id's most recent mark, NoTimestamp
                    \* when it was cleared or swept since (or never marked)
  lastTrOp,         \* history: the last call made on the tracker
  trackerSteps,     \* SpecTracker: number of tracker calls and clock steps so far
  fStatus,          \* SpecFilter: the status argument of stripAdversaryGateTagsOnTerminal
  fTags,            \* SpecFilter: the tags argument
  fResult,          \* SpecFilter: the array returned
  fCalled,          \* SpecFilter: whether the call was made
  tickPc,           \* producer loop: where each scheduler tick stands
  gated,            \* producer loop: the task list each tick queried
  tickIdx,          \* producer loop: position of each tick in its list
  produced,         \* history: adversary review messages produced per task (capped at 2)
  ticks,            \* producer loop: number of ticks started so far
  arg,              \* the argument of the function called (types.ts, terminal-state-guard.ts)
  ret,              \* what it returned
  called            \* whether the call was made

vars == <<tasks, processed, maxEntries, now, evTask, evAction, pc, ev,
          expectedVersion, applied, result, doneSince, wrote, appliedCount,
          fresh, conflicted, calls, directs, marked, lastMark, issued, remarks,
          adversaryInFlightTaskIds, adversaryInFlightTimestamps, markedAt,
          lastTrOp, trackerSteps, fStatus, fTags, fResult, fCalled,
          tickPc, gated, tickIdx, produced, ticks, arg, ret, called>>

trackerVars == <<adversaryInFlightTaskIds, adversaryInFlightTimestamps, markedAt,
                 lastTrOp, trackerSteps>>

filterVars == <<fStatus, fTags, fResult, fCalled>>

producerVars == <<tickPc, gated, tickIdx, produced, ticks>>

callVars == <<arg, ret, called>>

\* The state of guard-scheduler.ts, of the producer loop, and of the callers
\* of the write filter and of the guard functions.
auxVars == <<trackerVars, filterVars, producerVars, callVars>>

\* The counters of the ledger-only specification.
ledgerCtl == <<issued, remarks>>

\* ------------------------------------------------------ Action Resolver
resolveTargetStatus_DefaultClarify(action) ==
  CASE action = "challenge" -> "review"
    [] action = "reject" -> "review"
    [] action = "request_changes" -> "needs_clarification"
    [] action = "block" -> "needs_clarification"
    [] OTHER -> "needs_clarification"

resolveTargetStatus_RejectClarify(action) ==
  CASE action = "challenge" -> "review"
    [] action = "reject" -> "needs_clarification"
    [] action = "request_changes" -> "needs_clarification"
    [] action = "block" -> "needs_clarification"
    [] OTHER -> "review"

resolveTargetStatus_BlockDone(action) ==
  CASE action = "challenge" -> "review"
    [] action = "reject" -> "review"
    [] action = "request_changes" -> "needs_clarification"
    [] action = "block" -> "done"
    [] OTHER -> "review"

resolveTargetStatus(action) ==
  CASE action = "challenge" -> "review"
    [] action = "reject" -> "review"
    [] action = "request_changes" -> "needs_clarification"
    [] action = "block" -> "needs_clarification"
    [] OTHER -> "review"

\* ----------------------------------------------------- InMemoryTaskStore
getTask(store, taskId) == store[taskId]

\* An update {status?, version?}: has* say whether the field is present.
Update(hasStatus, status, hasVersion, version) ==
  [hasStatus |-> hasStatus, status |-> status,
   hasVersion |-> hasVersion, version |-> version]

updateTaskResult_Conditional(store, taskId, update, time) ==
  LET existing == store[taskId] IN
  IF existing = null THEN null
  ELSE IF update.hasVersion /\ update.version # existing.version + 1 THEN null
  ELSE [status |-> IF update.hasStatus THEN update.status ELSE existing.status,
        version |-> IF update.hasVersion THEN update.version ELSE existing.version + 1,
        updatedAt |-> time]

\* The snapshot updateTask returns (null when the task is absent).
updateTaskResult(store, taskId, update, time) ==
  LET existing == store[taskId] IN
  IF existing = null THEN null
  ELSE [status |-> IF update.hasStatus THEN update.status ELSE existing.status,
        version |-> IF update.hasVersion THEN update.version ELSE existing.version + 1,
        updatedAt |-> time]

\* The store after updateTask.
updateTask(store, taskId, update, time) ==
  LET updated == updateTaskResult(store, taskId, update, time) IN
  IF updated = null THEN store ELSE [store EXCEPT ![taskId] = updated]

\* --------------------------------------------------- InMemoryEventLedger
LedgerIds(led) == {led[i].id : i \in 1..Len(led)}

hasProcessed_Never(led, eventId) == FALSE

hasProcessed_Remembers(led, eventId) ==
  eventId \in LedgerIds(led) \/ appliedCount[eventId] >= 1

hasProcessed(led, eventId) == eventId \in LedgerIds(led)

Min(a, b) == IF a <= b THEN a ELSE b

EvictCutoff_Floor(cap) == cap \div 10

\* Math.ceil(maxEntries * 0.1)
EvictCutoff(cap) == (cap + 9) \div 10

\* The ids the capacity policy deletes when markProcessed is called.
EvictedIds(led, cap) ==
  LET removed == IF Len(led) >= cap THEN Min(EvictCutoff(cap), Len(led)) ELSE 0
  IN {led[i].id : i \in 1..removed}

markProcessed_EvictOnly(led, eventId, time, cap) ==
  LET removed == IF Len(led) >= cap THEN Min(EvictCutoff(cap), Len(led)) ELSE 0
      kept == SubSeq(led, removed + 1, Len(led))
      entry == [id |-> eventId, ts |-> time]
  IN IF removed > 0 THEN kept
     ELSE IF \E i \in 1..Len(kept) : kept[i].id = eventId
     THEN [i \in 1..Len(kept) |-> IF kept[i].id = eventId THEN entry ELSE kept[i]]
     ELSE Append(kept, entry)

\* The ledger after markProcessed: the Map keeps a key that is set again at
\* the place of its first insertion.
markProcessed(led, eventId, time, cap) ==
  LET removed == IF Len(led) >= cap THEN Min(EvictCutoff(cap), Len(led)) ELSE 0
      kept == SubSeq(led, removed + 1, Len(led))
      entry == [id |-> eventId, ts |-> time]
  IN IF \E i \in 1..Len(kept) : kept[i].id = eventId
     THEN [i \in 1..Len(kept) |-> IF kept[i].id = eventId THEN entry ELSE kept[i]]
     ELSE Append(kept, entry)

\* ------------------------------------------- guard-scheduler.ts, module state
\* No entry in adversaryInFlightTimestamps.
NoTimestamp == 0 - 1

NoTrOp == [op |-> "none", id |-> "none", was |-> FALSE, n |-> 0, removed |-> {}]

\* The module as loaded: an empty set and an empty map.
TrackerIdle ==
  /\ adversaryInFlightTaskIds = {}
  /\ adversaryInFlightTimestamps = [t \in TaskIds |-> NoTimestamp]
  /\ markedAt = [t \in TaskIds |-> NoTimestamp]
  /\ lastTrOp = NoTrOp
  /\ trackerSteps = 0

\* No call of the write filter under way.
FilterIdle ==
  /\ fStatus = "done"
  /\ fTags = <<>>
  /\ fResult = <<>>
  /\ fCalled = FALSE

\* The scheduler ticks of the producer loop.
Ticks == {"k1", "k2"}

\* No scheduler tick under way.
ProducerIdle ==
  /\ tickPc = [k \in Ticks |-> "idle"]
  /\ gated = [k \in Ticks |-> <<>>]
  /\ tickIdx = [k \in Ticks |-> 1]
  /\ produced = [t \in TaskIds |-> 0]
  /\ ticks = 0

NoArg == [fn |-> "none"]

NoRet == [fn |-> "none"]

\* No call of a guard function under way.
CallIdle ==
  /\ arg = NoArg
  /\ ret = NoRet
  /\ called = FALSE

\* ---------------------------------------------------------------- Init
Init ==
  /\ tasks \in {[t \in TaskIds |-> IF t = "t1"
                    THEN [status |-> s, version |-> 1, updatedAt |-> 0]
                    ELSE null] : s \in {"in_progress", "done"}}
  /\ processed = <<>>
  /\ maxEntries \in 1..MaxCap
  /\ now = 0
  /\ evTask \in {[e \in EventIds |-> IF e = "e1" THEN "t1" ELSE t] : t \in TaskIds}
  /\ evAction \in {[e \in EventIds |-> IF e = "e1" THEN a ELSE "request_changes"] :
                     a \in Actions}
  /\ pc = [p \in Procs |-> "idle"]
  /\ ev = [p \in Procs |-> "e1"]
  /\ expectedVersion = [p \in Procs |-> 0]
  /\ applied = [p \in Procs |-> FALSE]
  /\ result = [p \in Procs |-> NoResult]
  /\ doneSince = [p \in Procs |-> FALSE]
  /\ wrote = [p \in Procs |-> "none"]
  /\ appliedCount = [e \in EventIds |-> 0]
  /\ fresh = TRUE
  /\ conflicted = {}
  /\ calls = 0
  /\ directs = 0
  /\ marked = [e \in EventIds |-> "none"]
  /\ lastMark = [id |-> "none", evicted |-> {}]
  /\ issued = 0
  /\ remarks = 0
  /\ TrackerIdle
  /\ FilterIdle
  /\ ProducerIdle
  /\ CallIdle

\* ------------------------------------------------------ history helpers
IsDone(store, taskId) == store[taskId] # null /\ store[taskId].status = "done"

Active(p) == pc[p] \notin {"idle", "returned", "threw"}

\* doneSince after a store change made by someone other than `self`.
DoneSinceAfter(store, self) ==
  [q \in Procs |-> IF q # self /\ Active(q)
                   THEN doneSince[q] /\ IsDone(store, evTask[ev[q]])
                   ELSE doneSince[q]]

\* conflicted after a markProcessed call: evicted ids are forgotten.
ConflictedAfterMark == conflicted \ EvictedIds(processed, maxEntries)

\* marked after markProcessed(e) on the path `reason`: evicted ids lose
\* their entry.
MarkedAfter(e, reason) ==
  [x \in EventIds |->
     IF x = e THEN reason
     ELSE IF x \in EvictedIds(processed, maxEntries) THEN "none"
     ELSE marked[x]]

\* lastMark after markProcessed(e).
LastMarkAfter(e) == [id |-> e, evicted |-> EvictedIds(processed, maxEntries)]

MkResult_NoReason(isApplied, reason, e) ==
  [applied |-> isApplied, reason |-> "undefined", eventId |-> e, taskId |-> evTask[e]]

\* The EventProcessingResult literal; reason "undefined" is the absent property.
MkResult(isApplied, reason, e) ==
  [applied |-> isApplied, reason |-> reason, eventId |-> e, taskId |-> evTask[e]]

\* ------------------------------------------------------------- actions
\* processEvent entry and Guard 1 (idempotency check).
processEvent(p, e) ==
  /\ pc[p] \in {"idle", "returned", "threw"}
  /\ calls' = calls + 1
  /\ ev' = [ev EXCEPT ![p] = e]
  /\ expectedVersion' = [expectedVersion EXCEPT ![p] = 0]
  /\ applied' = [applied EXCEPT ![p] = FALSE]
  /\ wrote' = [wrote EXCEPT ![p] = "none"]
  /\ doneSince' = [doneSince EXCEPT ![p] = IsDone(tasks, evTask[e])]
  /\ fresh' = (fresh /\ pc[p] = "idle")
  /\ IF hasProcessed(processed, e)
     THEN /\ pc' = [pc EXCEPT ![p] = "returned"]
          /\ result' = [result EXCEPT ![p] = MkResult(FALSE, "duplicate", e)]
     ELSE /\ pc' = [pc EXCEPT ![p] = "getTask"]
          /\ result' = [result EXCEPT ![p] = NoResult]
  /\ UNCHANGED <<tasks, processed, maxEntries, now, evTask, evAction,
                 appliedCount, conflicted, directs, marked, lastMark, ledgerCtl,
                 auxVars>>

\* A delivery, concurrent with the other invocation slot.
ProcessEvent(p, e) ==
  /\ calls < MaxCalls
  /\ processEvent(p, e)

\* Guard 2: lookup, not-found and terminal-state checks.
Lookup(p) ==
  /\ pc[p] = "getTask"
  /\ LET task == getTask(tasks, evTask[ev[p]]) IN
     IF task = null
     THEN /\ pc' = [pc EXCEPT ![p] = "markNotFound"]
          /\ UNCHANGED expectedVersion
     ELSE IF task.status \in TERMINAL_STATES
     THEN /\ pc' = [pc EXCEPT ![p] = "markTerminal"]
          /\ UNCHANGED expectedVersion
     ELSE /\ pc' = [pc EXCEPT ![p] = "reread"]
          /\ expectedVersion' = [expectedVersion EXCEPT ![p] = task.version]
  /\ UNCHANGED <<tasks, processed, maxEntries, now, evTask, evAction, ev,
                 applied, result, doneSince, wrote, appliedCount, fresh,
                 conflicted, calls, directs, marked, lastMark, ledgerCtl,
                 auxVars>>

MarkNotFound_NoMark(p) ==
  /\ pc[p] = "markNotFound"
  /\ result' = [result EXCEPT ![p] = MkResult(FALSE, "not_found", ev[p])]
  /\ pc' = [pc EXCEPT ![p] = "returned"]
  /\ UNCHANGED <<tasks, processed, maxEntries, now, evTask, evAction, ev,
                 expectedVersion, applied, doneSince, wrote, appliedCount,
                 fresh, conflicted, calls, directs, marked, lastMark, ledgerCtl,
                 auxVars>>

\* markProcessed and return on the not-found path.
MarkNotFound(p) ==
  /\ pc[p] = "markNotFound"
  /\ processed' = markProcessed(processed, ev[p], now, maxEntries)
  /\ conflicted' = ConflictedAfterMark \ {ev[p]}
  /\ marked' = MarkedAfter(ev[p], "not_found")
  /\ lastMark' = LastMarkAfter(ev[p])
  /\ result' = [result EXCEPT ![p] = MkResult(FALSE, "not_found", ev[p])]
  /\ pc' = [pc EXCEPT ![p] = "returned"]
  /\ UNCHANGED <<tasks, maxEntries, now, evTask, evAction, ev,
                 expectedVersion, applied, doneSince, wrote, appliedCount,
                 fresh, calls, directs, ledgerCtl,
                 auxVars>>

MarkTerminal_NoMark(p) ==
  /\ pc[p] = "markTerminal"
  /\ result' = [result EXCEPT ![p] = MkResult(FALSE, "terminal", ev[p])]
  /\ pc' = [pc EXCEPT ![p] = "returned"]
  /\ UNCHANGED <<tasks, processed, maxEntries, now, evTask, evAction, ev,
                 expectedVersion, applied, doneSince, wrote, appliedCount,
                 fresh, conflicted, calls, directs, marked, lastMark, ledgerCtl,
                 auxVars>>

\* markProcessed and return on the terminal-state path.
MarkTerminal(p) ==
  /\ pc[p] = "markTerminal"
  /\ processed' = markProcessed(processed, ev[p], now, maxEntries)
  /\ conflicted' = ConflictedAfterMark \ {ev[p]}
  /\ marked' = MarkedAfter(ev[p], "terminal")
  /\ lastMark' = LastMarkAfter(ev[p])
  /\ result' = [result EXCEPT ![p] = MkResult(FALSE, "terminal", ev[p])]
  /\ pc' = [pc EXCEPT ![p] = "returned"]
  /\ UNCHANGED <<tasks, maxEntries, now, evTask, evAction, ev,
                 expectedVersion, applied, doneSince, wrote, appliedCount,
                 fresh, calls, directs, ledgerCtl,
                 auxVars>>

Reread_IgnoresTerminal(p) ==
  /\ pc[p] = "reread"
  /\ LET current == getTask(tasks, evTask[ev[p]]) IN
     IF current = null \/ current.version # expectedVersion[p]
     THEN pc' = [pc EXCEPT ![p] = "markProcessed"]
     ELSE pc' = [pc EXCEPT ![p] = "updateTask"]
  /\ applied' = [applied EXCEPT ![p] = FALSE]
  /\ UNCHANGED <<tasks, processed, maxEntries, now, evTask, evAction, ev,
                 expectedVersion, result, doneSince, wrote, appliedCount,
                 fresh, conflicted, calls, directs, marked, lastMark, ledgerCtl,
                 auxVars>>

\* applyAdversaryAction: the re-read and its two checks.
Reread(p) ==
  /\ pc[p] = "reread"
  /\ LET current == getTask(tasks, evTask[ev[p]]) IN
     IF current = null \/ current.version # expectedVersion[p]
        \/ current.status \in TERMINAL_STATES
     THEN pc' = [pc EXCEPT ![p] = "markProcessed"]
     ELSE pc' = [pc EXCEPT ![p] = "updateTask"]
  /\ applied' = [applied EXCEPT ![p] = FALSE]
  /\ UNCHANGED <<tasks, processed, maxEntries, now, evTask, evAction, ev,
                 expectedVersion, result, doneSince, wrote, appliedCount,
                 fresh, conflicted, calls, directs, marked, lastMark, ledgerCtl,
                 auxVars>>

\* The update the guard commits with.
CommitUpdate(p) ==
  Update(TRUE, resolveTargetStatus(evAction[ev[p]]), TRUE, expectedVersion[p] + 1)

\* applyAdversaryAction: the updateTask call and `updated !== null`.
Commit(p) ==
  /\ pc[p] = "updateTask"
  /\ expectedVersion[p] < MaxVersion
  /\ LET t == evTask[ev[p]] IN
     /\ tasks' = updateTask(tasks, t, CommitUpdate(p), now)
     /\ applied' = [applied EXCEPT ![p] = updateTaskResult(tasks, t, CommitUpdate(p), now) # null]
  /\ wrote' = [wrote EXCEPT ![p] =
        IF ~applied'[p] THEN "none"
        ELSE IF tasks[evTask[ev[p]]].version = expectedVersion[p] THEN "matched"
        ELSE "stale"]
  /\ doneSince' = DoneSinceAfter(tasks', p)
  /\ pc' = [pc EXCEPT ![p] = "markProcessed"]
  /\ UNCHANGED <<processed, maxEntries, now, evTask, evAction, ev,
                 expectedVersion, result, appliedCount, fresh, conflicted,
                 calls, directs, marked, lastMark, ledgerCtl,
                 auxVars>>

MarkProcessed_OnlyApplied(p) ==
  /\ pc[p] = "markProcessed"
  /\ processed' = IF applied[p]
                  THEN markProcessed(processed, ev[p], now, maxEntries)
                  ELSE processed
  /\ result' = [result EXCEPT ![p] =
        IF applied[p] THEN MkResult(TRUE, "undefined", ev[p])
        ELSE MkResult(FALSE, "conflict", ev[p])]
  /\ conflicted' = IF applied[p]
                   THEN ConflictedAfterMark \ {ev[p]}
                   ELSE conflicted \cup {ev[p]}
  /\ marked' = IF applied[p] THEN MarkedAfter(ev[p], "applied")
               ELSE [marked EXCEPT ![ev[p]] = "conflict"]
  /\ lastMark' = IF applied[p] THEN LastMarkAfter(ev[p]) ELSE lastMark
  /\ appliedCount' = IF applied[p]
                     THEN [appliedCount EXCEPT ![ev[p]] = Min(2, @ + 1)]
                     ELSE appliedCount
  /\ pc' = [pc EXCEPT ![p] = "returned"]
  /\ UNCHANGED <<tasks, maxEntries, now, evTask, evAction, ev,
                 expectedVersion, applied, doneSince, wrote, fresh, calls,
                 directs, ledgerCtl,
                 auxVars>>

\* "Mark as processed regardless of apply outcome", then return.
MarkProcessed(p) ==
  /\ pc[p] = "markProcessed"
  /\ processed' = markProcessed(processed, ev[p], now, maxEntries)
  /\ result' = [result EXCEPT ![p] =
        IF applied[p] THEN MkResult(TRUE, "undefined", ev[p])
        ELSE MkResult(FALSE, "conflict", ev[p])]
  /\ conflicted' = IF applied[p]
                   THEN ConflictedAfterMark \ {ev[p]}
                   ELSE ConflictedAfterMark \cup {ev[p]}
  /\ marked' = MarkedAfter(ev[p], IF applied[p] THEN "applied" ELSE "conflict")
  /\ lastMark' = LastMarkAfter(ev[p])
  /\ appliedCount' = IF applied[p]
                     THEN [appliedCount EXCEPT ![ev[p]] = Min(2, @ + 1)]
                     ELSE appliedCount
  /\ pc' = [pc EXCEPT ![p] = "returned"]
  /\ UNCHANGED <<tasks, maxEntries, now, evTask, evAction, ev,
                 expectedVersion, applied, doneSince, wrote, fresh, calls,
                 directs, ledgerCtl,
                 auxVars>>

\* Another actor writes the store directly (store.updateTask in the tests).
DirectUpdate(t, update) ==
  /\ directs < MaxDirect
  /\ directs' = directs + 1
  /\ updateTaskResult(tasks, t, update, now).version <= MaxVersion
  /\ tasks' = updateTask(tasks, t, update, now)
  /\ doneSince' = DoneSinceAfter(tasks', "none")
  /\ fresh' = FALSE
  /\ UNCHANGED <<processed, maxEntries, now, evTask, evAction, pc, ev,
                 expectedVersion, applied, result, wrote, appliedCount,
                 conflicted, calls, marked, lastMark, ledgerCtl,
                 auxVars>>

\* What the other actor writes: it completes the task (as the tests do, with
\* the next version, an arbitrary higher one or a lower one) or reopens it.
DirectUpdates ==
  {Update(TRUE, "done", FALSE, 0), Update(TRUE, "in_progress", FALSE, 0),
   Update(TRUE, "done", TRUE, 1), Update(TRUE, "done", TRUE, MaxVersion)}

Next ==
  \/ \E p \in Procs, e \in EventIds : ProcessEvent(p, e)
  \/ \E p \in Procs : Lookup(p)
  \/ \E p \in Procs : MarkNotFound(p)
  \/ \E p \in Procs : MarkTerminal(p)
  \/ \E p \in Procs : Reread(p)
  \/ \E p \in Procs : Commit(p)
  \/ \E p \in Procs : MarkProcessed(p)
  \/ \E t \in TaskIds, u \in DirectUpdates : DirectUpdate(t, u)

Spec == Init /\ [][Next]_vars

\* ------------------------------------------- sequential deliveries (SpecSeq)
\* One caller delivers events one after the other; tasks are created with
\* InMemoryTaskStore.seed, and a store or ledger call may fail.
SeqProc == "p1"

SeedStatuses == {"in_progress", "done"}

\* store.seed(task): creates the task, or replaces the one stored.
Seed(t, s) ==
  /\ directs < MaxDirect
  /\ directs' = directs + 1
  /\ tasks' = [tasks EXCEPT ![t] = [status |-> s, version |-> 1, updatedAt |-> now]]
  /\ doneSince' = DoneSinceAfter(tasks', "none")
  /\ fresh' = FALSE
  /\ UNCHANGED <<processed, maxEntries, now, evTask, evAction, pc, ev,
                 expectedVersion, applied, result, wrote, appliedCount,
                 conflicted, calls, marked, lastMark, ledgerCtl,
                 auxVars>>

SeqProcessEvent(e) ==
  /\ calls < MaxSeqCalls
  /\ processEvent(SeqProc, e)

\* The awaits after the idempotency check: the store or ledger call that
\* invocation p is about to make.
Awaiting == {"getTask", "markNotFound", "markTerminal", "reread", "updateTask",
             "markProcessed"}

Throw_Marks(p) ==
  /\ pc[p] \in Awaiting
  /\ pc' = [pc EXCEPT ![p] = "threw"]
  /\ processed' = markProcessed(processed, ev[p], now, maxEntries)
  /\ marked' = MarkedAfter(ev[p], "conflict")
  /\ lastMark' = LastMarkAfter(ev[p])
  /\ UNCHANGED <<tasks, maxEntries, now, evTask, evAction, ev,
                 expectedVersion, applied, result, doneSince, wrote,
                 appliedCount, fresh, conflicted, calls, directs, ledgerCtl,
                 auxVars>>

\* The awaited store or ledger call rejects. processEvent has no try/catch,
\* so the rejection leaves it at once: nothing after the await runs, and no
\* EventProcessingResult is built. The failed call itself has no effect.
Throw(p) ==
  /\ pc[p] \in Awaiting
  /\ pc' = [pc EXCEPT ![p] = "threw"]
  /\ UNCHANGED <<tasks, processed, maxEntries, now, evTask, evAction, ev,
                 expectedVersion, applied, result, doneSince, wrote,
                 appliedCount, fresh, conflicted, calls, directs, marked,
                 lastMark, ledgerCtl,
                 auxVars>>

\* processEvent is called and its first await, hasProcessed, rejects.
ThrowHasProcessed(p, e) ==
  /\ pc[p] \in {"idle", "returned", "threw"}
  /\ calls < MaxSeqCalls
  /\ calls' = calls + 1
  /\ ev' = [ev EXCEPT ![p] = e]
  /\ expectedVersion' = [expectedVersion EXCEPT ![p] = 0]
  /\ applied' = [applied EXCEPT ![p] = FALSE]
  /\ wrote' = [wrote EXCEPT ![p] = "none"]
  /\ doneSince' = [doneSince EXCEPT ![p] = IsDone(tasks, evTask[e])]
  /\ fresh' = (fresh /\ pc[p] = "idle")
  /\ pc' = [pc EXCEPT ![p] = "threw"]
  /\ result' = [result EXCEPT ![p] = NoResult]
  /\ UNCHANGED <<tasks, processed, maxEntries, now, evTask, evAction,
                 appliedCount, conflicted, directs, marked, lastMark, ledgerCtl,
                 auxVars>>

NextSeq ==
  \/ \E e \in EventIds : SeqProcessEvent(e)
  \/ Lookup(SeqProc)
  \/ MarkNotFound(SeqProc)
  \/ MarkTerminal(SeqProc)
  \/ Reread(SeqProc)
  \/ Commit(SeqProc)
  \/ MarkProcessed(SeqProc)
  \/ \E e \in EventIds : ThrowHasProcessed(SeqProc, e)
  \/ Throw(SeqProc)
  \/ \E t \in TaskIds, s \in SeedStatuses : Seed(t, s)

SpecSeq == Init /\ [][NextSeq]_vars

\* ------------------------------------------- the ledger alone (SpecLedger)
\* InMemoryEventLedger driven directly. Keys are numbered in the order of
\* their first mark; a call marks the next new key or, up to MaxRemarks
\* times, a key that was marked before.
LedgerKeys == 1..MaxKeys

LedgerCaps == (0..MaxCap) \cup {BigCap}

guardVars == <<tasks, evTask, evAction, pc, ev, expectedVersion, applied,
               result, doneSince, wrote, appliedCount, fresh, conflicted,
               calls, directs, marked>>

InitLedger ==
  /\ tasks = [t \in TaskIds |-> null]
  /\ processed = <<>>
  /\ maxEntries \in LedgerCaps
  /\ now = 0
  /\ evTask = [e \in EventIds |-> "t1"]
  /\ evAction = [e \in EventIds |-> "challenge"]
  /\ pc = [p \in Procs |-> "idle"]
  /\ ev = [p \in Procs |-> "e1"]
  /\ expectedVersion = [p \in Procs |-> 0]
  /\ applied = [p \in Procs |-> FALSE]
  /\ result = [p \in Procs |-> NoResult]
  /\ doneSince = [p \in Procs |-> FALSE]
  /\ wrote = [p \in Procs |-> "none"]
  /\ appliedCount = [e \in EventIds |-> 0]
  /\ fresh = TRUE
  /\ conflicted = {}
  /\ calls = 0
  /\ directs = 0
  /\ marked = [e \in EventIds |-> "none"]
  /\ lastMark = [id |-> 0, evicted |-> {}]
  /\ issued = 0
  /\ remarks = 0
  /\ TrackerIdle
  /\ FilterIdle
  /\ ProducerIdle
  /\ CallIdle

\* ledger.markProcessed(k)
LedgerMark(k) ==
  /\ k <= issued + 1
  /\ IF k = issued + 1
     THEN issued' = issued + 1 /\ remarks' = remarks
     ELSE remarks < MaxRemarks /\ remarks' = remarks + 1 /\ issued' = issued
  /\ processed' = markProcessed(processed, k, now, maxEntries)
  /\ lastMark' = LastMarkAfter(k)
  /\ UNCHANGED <<maxEntries, now, guardVars, auxVars>>

\* Time passes between two calls (Date.now() moves on).
LedgerTick ==
  /\ now < MaxTime
  /\ now' = now + 1
  /\ UNCHANGED <<processed, maxEntries, lastMark, ledgerCtl, guardVars, auxVars>>

NextLedger ==
  \/ \E k \in LedgerKeys : LedgerMark(k)
  \/ LedgerTick

SpecLedger == InitLedger /\ [][NextLedger]_vars

\* --------------------------------------- the in-flight tracker (SpecTracker)
\* The guard and the ledger at rest, for the specifications that do not
\* run them.
GuardIdle ==
  /\ tasks = [t \in TaskIds |-> null]
  /\ processed = <<>>
  /\ maxEntries = 1
  /\ now = 0
  /\ evTask = [e \in EventIds |-> "t1"]
  /\ evAction = [e \in EventIds |-> "challenge"]
  /\ pc = [p \in Procs |-> "idle"]
  /\ ev = [p \in Procs |-> "e1"]
  /\ expectedVersion = [p \in Procs |-> 0]
  /\ applied = [p \in Procs |-> FALSE]
  /\ result = [p \in Procs |-> NoResult]
  /\ doneSince = [p \in Procs |-> FALSE]
  /\ wrote = [p \in Procs |-> "none"]
  /\ appliedCount = [e \in EventIds |-> 0]
  /\ fresh = TRUE
  /\ conflicted = {}
  /\ calls = 0
  /\ directs = 0
  /\ marked = [e \in EventIds |-> "none"]
  /\ lastMark = [id |-> "none", evicted |-> {}]
  /\ issued = 0
  /\ remarks = 0

\* Everything but the clock and the tracker.
untracked == <<guardVars, processed, maxEntries, lastMark, ledgerCtl, filterVars,
               producerVars, callVars>>

isAdversaryInFlight(taskId) == taskId \in adversaryInFlightTaskIds

TrOp(op, id) ==
  [op |-> op, id |-> id, was |-> id \in adversaryInFlightTaskIds, n |-> 0,
   removed |-> {}]

markAdversaryInFlight(taskId) ==
  /\ trackerSteps < MaxTrackerSteps
  /\ trackerSteps' = trackerSteps + 1
  /\ adversaryInFlightTaskIds' = adversaryInFlightTaskIds \cup {taskId}
  /\ markedAt' = [markedAt EXCEPT ![taskId] = now]
  /\ lastTrOp' = TrOp("mark", taskId)
  /\ UNCHANGED <<adversaryInFlightTimestamps, now, untracked>>

markAdversaryInFlightWithTimestamp(taskId) ==
  /\ trackerSteps < MaxTrackerSteps
  /\ trackerSteps' = trackerSteps + 1
  /\ adversaryInFlightTaskIds' = adversaryInFlightTaskIds \cup {taskId}
  /\ adversaryInFlightTimestamps' =
       [adversaryInFlightTimestamps EXCEPT ![taskId] = now]
  /\ markedAt' = [markedAt EXCEPT ![taskId] = now]
  /\ lastTrOp' = TrOp("markWithTimestamp", taskId)
  /\ UNCHANGED <<now, untracked>>

clearAdversaryInFlight_All(taskId) ==
  /\ trackerSteps < MaxTrackerSteps
  /\ trackerSteps' = trackerSteps + 1
  /\ adversaryInFlightTaskIds' = {}
  /\ markedAt' = [t \in TaskIds |-> NoTimestamp]
  /\ lastTrOp' = TrOp("clear", taskId)
  /\ UNCHANGED <<adversaryInFlightTimestamps, now, untracked>>

clearAdversaryInFlight(taskId) ==
  /\ trackerSteps < MaxTrackerSteps
  /\ trackerSteps' = trackerSteps + 1
  /\ adversaryInFlightTaskIds' = adversaryInFlightTaskIds \ {taskId}
  /\ markedAt' = [markedAt EXCEPT ![taskId] = NoTimestamp]
  /\ lastTrOp' = TrOp("clear", taskId)
  /\ UNCHANGED <<adversaryInFlightTimestamps, now, untracked>>

StaleIds_Oldest(timestamps, time) ==
  LET stale == {t \in TaskIds : /\ timestamps[t] # NoTimestamp
                                /\ timestamps[t] < time - ADVERSARY_INFLIGHT_STALE_MS}
  IN IF stale = {} THEN {}
     ELSE {CHOOSE t \in stale : \A u \in stale : timestamps[t] <= timestamps[u]}

\* The entries of the timestamp map the sweep deletes: timestamp < cutoff.
StaleIds(timestamps, time) ==
  {t \in TaskIds : /\ timestamps[t] # NoTimestamp
                   /\ timestamps[t] < time - ADVERSARY_INFLIGHT_STALE_MS}

\* The function has no await: it runs to completion as one step.
cleanupStaleAdversaryInFlight ==
  LET stale == StaleIds(adversaryInFlightTimestamps, now) IN
  /\ trackerSteps < MaxTrackerSteps
  /\ trackerSteps' = trackerSteps + 1
  /\ adversaryInFlightTaskIds' = adversaryInFlightTaskIds \ stale
  /\ adversaryInFlightTimestamps' =
       [t \in TaskIds |-> IF t \in stale THEN NoTimestamp
                          ELSE adversaryInFlightTimestamps[t]]
  /\ markedAt' = [t \in TaskIds |-> IF t \in stale THEN NoTimestamp ELSE markedAt[t]]
  /\ lastTrOp' = IF lastTrOp.op = "sweep"
                 THEN [lastTrOp EXCEPT !.n = Min(2, @ + 1)]
                 ELSE [op |-> "sweep", id |-> "none", was |-> FALSE, n |-> 1,
                       removed |-> stale]
  /\ UNCHANGED <<now, untracked>>

\* The clock steps: a millisecond, just under the threshold, just over it.
TickSteps == {1, ADVERSARY_INFLIGHT_STALE_MS - 1, ADVERSARY_INFLIGHT_STALE_MS + 1}

TrackerTick(d) ==
  /\ trackerSteps < MaxTrackerSteps
  /\ trackerSteps' = trackerSteps + 1
  /\ now' = now + d
  /\ lastTrOp' = [NoTrOp EXCEPT !.op = "tick"]
  /\ UNCHANGED <<adversaryInFlightTaskIds, adversaryInFlightTimestamps, markedAt,
                 untracked>>

InitTracker == GuardIdle /\ TrackerIdle /\ FilterIdle /\ ProducerIdle /\ CallIdle

NextTracker ==
  \/ \E t \in TaskIds : markAdversaryInFlight(t)
  \/ \E t \in TaskIds : markAdversaryInFlightWithTimestamp(t)
  \/ \E t \in TaskIds : clearAdversaryInFlight(t)
  \/ cleanupStaleAdversaryInFlight
  \/ \E d \in TickSteps : TrackerTick(d)

SpecTracker == InitTracker /\ [][NextTracker]_vars

\* ------------------------------- the terminal-state write filter (SpecFilter)
\* A tag is a string: optional white space, a word, optional white space;
\* the word is written in lower case or with upper-case letters in it.
TagWords == {"adversary:pass", "adversary:pending", "adversary:passed", "feature"}

TagValues == [lead : BOOLEAN, word : TagWords, upper : BOOLEAN, trail : BOOLEAN]

\* The string literal "w".
Literal(w) == [lead |-> FALSE, word |-> w, upper |-> FALSE, trail |-> FALSE]

trim_Start(tag) == [tag EXCEPT !.lead = FALSE]

\* String.prototype.trim
trim(tag) == [tag EXCEPT !.lead = FALSE, !.trail = FALSE]

\* String.prototype.toLowerCase
toLowerCase(tag) == [tag EXCEPT !.upper = FALSE]

ADVERSARY_GATE_TAGS == <<Literal("adversary:pass"), Literal("adversary:pending")>>

TERMINAL_TASK_STATUSES_WithReview == {"done", "backlog", "review"}

TERMINAL_TASK_STATUSES == {"done", "backlog"}

stripAdversaryGateTagsOnTerminal(status, tags) ==
  IF status \notin TERMINAL_TASK_STATUSES THEN tags
  ELSE SelectSeq(tags, LAMBDA tag :
         ~(\E i \in 1..Len(ADVERSARY_GATE_TAGS) :
             toLowerCase(trim(tag)) = toLowerCase(ADVERSARY_GATE_TAGS[i])))

\* status is a plain string: the task statuses and one that is none of them.
FilterStatuses == TASK_STATUSES \cup {"canceled"}

TagLists == UNION {[1..n -> TagValues] : n \in 0..MaxTags}

InitFilter ==
  /\ GuardIdle
  /\ TrackerIdle
  /\ fStatus \in FilterStatuses
  /\ fTags \in TagLists
  /\ fResult = <<>>
  /\ fCalled = FALSE
  /\ ProducerIdle
  /\ CallIdle

\* The caller (updateTask) applies the filter to the merged tags.
StripCall ==
  /\ ~fCalled
  /\ fCalled' = TRUE
  /\ fResult' = stripAdversaryGateTagsOnTerminal(fStatus, fTags)
  /\ UNCHANGED <<fStatus, fTags, now, trackerVars, guardVars, processed,
                 maxEntries, lastMark, ledgerCtl, producerVars, callVars>>

NextFilter == StripCall

SpecFilter == InitFilter /\ [][NextFilter]_vars

\* ------------------------------------------ the producer loop (SpecProducer)
\* autopilotNudgeAdversaryReviewQueue as patched: each scheduler tick walks
\* the list it queried; `await repo.getTask` is the one await of the loop
\* body, so a step is the code before it or the code after it. The function
\* holds no lock, so a tick may start while another one is at its await.
TaskOrder == <<"t1", "t2">>

\* The listTasks query: the tasks in review, as of the query.
ReviewList(store) ==
  SelectSeq(TaskOrder, LAMBDA t : store[t] # null /\ store[t].status = "review")

InitProducer ==
  /\ tasks \in {[t \in TaskIds |-> IF t = "t1"
                    THEN [status |-> "review", version |-> 1, updatedAt |-> 0]
                    ELSE other] :
                other \in {null, [status |-> "review", version |-> 1, updatedAt |-> 0]}}
  /\ processed = <<>>
  /\ maxEntries = 1
  /\ now = 0
  /\ evTask = [e \in EventIds |-> "t1"]
  /\ evAction = [e \in EventIds |-> "challenge"]
  /\ pc = [p \in Procs |-> "idle"]
  /\ ev = [p \in Procs |-> "e1"]
  /\ expectedVersion = [p \in Procs |-> 0]
  /\ applied = [p \in Procs |-> FALSE]
  /\ result = [p \in Procs |-> NoResult]
  /\ doneSince = [p \in Procs |-> FALSE]
  /\ wrote = [p \in Procs |-> "none"]
  /\ appliedCount = [e \in EventIds |-> 0]
  /\ fresh = TRUE
  /\ conflicted = {}
  /\ calls = 0
  /\ directs = 0
  /\ marked = [e \in EventIds |-> "none"]
  /\ lastMark = [id |-> "none", evicted |-> {}]
  /\ issued = 0
  /\ remarks = 0
  /\ TrackerIdle
  /\ FilterIdle
  /\ ProducerIdle
  /\ CallIdle

\* The task the tick is at.
TickTask(k) == gated[k][tickIdx[k]]

\* A scheduler tick starts: it queries the tasks under review.
ProducerTick(k) ==
  /\ ticks < MaxTicks
  /\ tickPc[k] = "idle"
  /\ ticks' = ticks + 1
  /\ gated' = [gated EXCEPT ![k] = ReviewList(tasks)]
  /\ tickIdx' = [tickIdx EXCEPT ![k] = 1]
  /\ tickPc' = [tickPc EXCEPT ![k] = IF ReviewList(tasks) = <<>> THEN "idle" ELSE "check"]
  /\ UNCHANGED <<produced, now, trackerVars, filterVars, callVars, guardVars,
                 processed, maxEntries, lastMark, ledgerCtl>>

\* `continue`: on to the next task of the list, or the end of the tick.
TickPcAfterContinue(k) ==
  [tickPc EXCEPT ![k] = IF tickIdx[k] < Len(gated[k]) THEN "check" ELSE "idle"]

\* The loop body up to the await: the in-flight check and the tag checks
\* (tagsPass: the task has neither adversary:pass nor adversary:pending).
ProducerCheck(k, tagsPass) ==
  /\ tickPc[k] = "check"
  /\ IF isAdversaryInFlight(TickTask(k)) \/ ~tagsPass
     THEN /\ tickPc' = TickPcAfterContinue(k)
          /\ tickIdx' = [tickIdx EXCEPT ![k] = @ + 1]
     ELSE /\ tickPc' = [tickPc EXCEPT ![k] = "getTask"]
          /\ UNCHANGED tickIdx
  /\ UNCHANGED <<gated, produced, ticks, now, trackerVars, filterVars, callVars,
                 guardVars, processed, maxEntries, lastMark, ledgerCtl>>

\* The loop body after the await: the re-verification, then either
\* clearAdversaryInFlight and `continue`, or the task is queued for the
\* adversary and markAdversaryInFlight is called.
ProducerReverify(k) ==
  /\ tickPc[k] = "getTask"
  /\ LET t == TickTask(k)
         freshTask == getTask(tasks, t)
     IN IF freshTask = null \/ freshTask.status # "review"
        THEN /\ adversaryInFlightTaskIds' = adversaryInFlightTaskIds \ {t}
             /\ markedAt' = [markedAt EXCEPT ![t] = NoTimestamp]
             /\ lastTrOp' = TrOp("clear", t)
             /\ UNCHANGED produced
        ELSE /\ adversaryInFlightTaskIds' = adversaryInFlightTaskIds \cup {t}
             /\ markedAt' = [markedAt EXCEPT ![t] = now]
             /\ lastTrOp' = TrOp("mark", t)
             /\ produced' = [produced EXCEPT ![t] = Min(2, @ + 1)]
  /\ tickPc' = TickPcAfterContinue(k)
  /\ tickIdx' = [tickIdx EXCEPT ![k] = @ + 1]
  /\ UNCHANGED <<gated, ticks, now, adversaryInFlightTimestamps, trackerSteps,
                 filterVars, callVars, guardVars, processed, maxEntries,
                 lastMark, ledgerCtl>>

NextProducer ==
  \/ \E k \in Ticks : ProducerTick(k)
  \/ \E k \in Ticks, tagsPass \in BOOLEAN : ProducerCheck(k, tagsPass)
  \/ \E k \in Ticks : ProducerReverify(k)
  \/ \E t \in TaskIds : clearAdversaryInFlight(t)
  \/ \E t \in TaskIds, u \in DirectUpdates : DirectUpdate(t, u)

SpecProducer == InitProducer /\ [][NextProducer]_vars

\* ------------------------------------------------ types.ts: the tag helpers
ADVERSARY_PASS_TAG == Literal("adversary:pass")

ADVERSARY_PENDING_TAG == Literal("adversary:pending")

ADVERSARY_GATE_ELIGIBLE_STATES_WithInProgress == {"review", "in_progress"}

ADVERSARY_GATE_ELIGIBLE_STATES == {"review"}

normalizeTag_NoTrim(tag) == toLowerCase(tag)

normalizeTag(tag) == toLowerCase(trim(tag))

hasTag_Exact(tags, expected) == \E i \in 1..Len(tags) : tags[i] = expected

hasTag(tags, expected) ==
  \E i \in 1..Len(tags) : normalizeTag(tags[i]) = normalizeTag(expected)

isAdversaryTag(tag) ==
  \/ normalizeTag(tag) = normalizeTag(ADVERSARY_PASS_TAG)
  \/ normalizeTag(tag) = normalizeTag(ADVERSARY_PENDING_TAG)

hasAnyAdversaryTag(tags) == \E i \in 1..Len(tags) : isAdversaryTag(tags[i])

removeTag_Exact(tags, target) == SelectSeq(tags, LAMBDA tag : tag # target)

removeTag(tags, target) ==
  SelectSeq(tags, LAMBDA tag : normalizeTag(tag) # normalizeTag(target))

\* The string "w" in upper case with white space on both sides.
Spaced(w) == [lead |-> TRUE, word |-> w, upper |-> TRUE, trail |-> TRUE]

\* The tags the guard functions are called with: both gate markers as the
\* constants spell them, one spelled with white space and upper case, and a
\* tag that is no marker.
GuardTagValues ==
  {Literal("adversary:pass"), Literal("adversary:pending"),
   Spaced("adversary:pending"), Literal("feature")}

GuardTagLists == UNION {[1..n -> GuardTagValues] : n \in 0..MaxTags}

\* Everything but the call of a guard function.
uncalled == <<now, trackerVars, filterVars, producerVars, guardVars, processed,
              maxEntries, lastMark, ledgerCtl>>

\* ------------------------- Guard 1: checkTerminalStateGuard (SpecTerminalGuard)
\* TaskStateGuardInput; has* say whether the optional field is present.
TaskStateGuardInputs(tagLists) ==
  [currentStatus : TASK_STATUSES, currentTags : tagLists,
   hasRequestedStatus : BOOLEAN, requestedStatus : TASK_STATUSES,
   hasRequestedTags : BOOLEAN, requestedTags : tagLists]

\* TaskStateGuardResult (the reason text left out).
GuardResult(blocked, hasCleanedTags, cleanedTags) ==
  [blocked |-> blocked, hasCleanedTags |-> hasCleanedTags,
   cleanedTags |-> cleanedTags]

checkTerminalStateGuard(input) ==
  LET incomingTags == IF input.hasRequestedTags THEN input.requestedTags
                      ELSE input.currentTags
  IN IF input.currentStatus \notin TERMINAL_STATES
     THEN GuardResult(FALSE, FALSE, <<>>)
     ELSE IF /\ input.hasRequestedStatus
             /\ input.requestedStatus # input.currentStatus
             /\ hasAnyAdversaryTag(incomingTags)
     THEN GuardResult(TRUE, FALSE, <<>>)
     ELSE IF input.hasRequestedTags /\ hasAnyAdversaryTag(input.requestedTags)
     THEN GuardResult(FALSE, TRUE,
            SelectSeq(input.requestedTags, LAMBDA tag : ~isAdversaryTag(tag)))
     ELSE GuardResult(FALSE, FALSE, <<>>)

\* An absent optional field carries no value.
InitTerminalGuard ==
  /\ GuardIdle /\ TrackerIdle /\ FilterIdle /\ ProducerIdle
  /\ arg \in {i \in TaskStateGuardInputs(GuardTagLists) :
                /\ ~i.hasRequestedStatus => i.requestedStatus = i.currentStatus
                /\ ~i.hasRequestedTags => i.requestedTags = <<>>}
  /\ ret = NoRet
  /\ called = FALSE

\* updateTask asks the guard about the update it is about to write.
CallCheckTerminalStateGuard ==
  /\ ~called
  /\ called' = TRUE
  /\ ret' = checkTerminalStateGuard(arg)
  /\ UNCHANGED <<arg, uncalled>>

NextTerminalGuard == CallCheckTerminalStateGuard

SpecTerminalGuard == InitTerminalGuard /\ [][NextTerminalGuard]_vars

\* --------------------- Guard 2: filterAdversaryQueueCandidates (SpecQueueFilter)
\* status is a plain string: the eligible one and one that is not.
CandidateStatuses == {"review", "done"}

CandidatePriorities == {"medium", "high", "critical"}

\* AdversaryQueueCandidate
Candidates ==
  [id : TaskIds, status : CandidateStatuses, tags : GuardTagLists,
   priority : CandidatePriorities]

\* The task arrays the scheduler passes: each task listed once.
CandidateLists(candidates) ==
  {<<>>} \cup {<<c>> : c \in {x \in candidates : x.id = "t1"}}
         \cup {<<c, d>> : c \in {x \in candidates : x.id = "t1"},
                          d \in {x \in candidates : x.id = "t2"}}

\* The three collections before the loop.
EmptyFilterResult ==
  [eligible |-> <<>>, staleCleanup |-> <<>>,
   skippedReasons |-> [t \in TaskIds |-> "none"]]

\* One pass of the loop body over `task`.
filterCandidate(acc, task) ==
  LET cleanup == Append(acc.staleCleanup,
                   [id |-> task.id,
                    cleanedTags |-> removeTag(task.tags, ADVERSARY_PENDING_TAG)])
      skip(why) == [acc.skippedReasons EXCEPT ![task.id] = why]
  IN IF task.status \notin ADVERSARY_GATE_ELIGIBLE_STATES
     THEN [acc EXCEPT !.staleCleanup = IF hasTag(task.tags, ADVERSARY_PENDING_TAG)
                                       THEN cleanup ELSE @,
                      !.skippedReasons = skip("status")]
     ELSE IF hasTag(task.tags, ADVERSARY_PASS_TAG)
     THEN [acc EXCEPT !.staleCleanup = IF hasTag(task.tags, ADVERSARY_PENDING_TAG)
                                       THEN cleanup ELSE @,
                      !.skippedReasons = skip("pass")]
     ELSE IF hasTag(task.tags, ADVERSARY_PENDING_TAG)
     THEN [acc EXCEPT !.skippedReasons = skip("pending")]
     ELSE IF task.priority # "high" /\ task.priority # "critical"
     THEN [acc EXCEPT !.skippedReasons = skip("priority")]
     ELSE [acc EXCEPT !.eligible = Append(@, task)]

RECURSIVE filterFrom(_, _, _)
\* The loop from task i on.
filterFrom(acc, candidates, i) ==
  IF i > Len(candidates) THEN acc
  ELSE filterFrom(filterCandidate(acc, candidates[i]), candidates, i + 1)

filterAdversaryQueueCandidates(candidates) ==
  filterFrom(EmptyFilterResult, candidates, 1)

InitQueueFilter ==
  /\ GuardIdle /\ TrackerIdle /\ FilterIdle /\ ProducerIdle
  /\ arg \in CandidateLists(Candidates)
  /\ ret = NoRet
  /\ called = FALSE

\* The scheduler filters the tasks it listed.
CallFilterAdversaryQueueCandidates ==
  /\ ~called
  /\ called' = TRUE
  /\ ret' = filterAdversaryQueueCandidates(arg)
  /\ UNCHANGED <<arg, uncalled>>

NextQueueFilter == CallFilterAdversaryQueueCandidates

SpecQueueFilter == InitQueueFilter /\ [][NextQueueFilter]_vars

\* ------------------------ Guard 3: checkAdversaryVerdictApplicable (SpecVerdict)
\* AdversaryVerdictInput (taskId is only carried along).
AdversaryVerdictInputs ==
  [taskId : {"t1"}, currentStatus : FilterStatuses, currentTags : GuardTagLists,
   verdict : {"pass", "fail"}]

\* AdversaryVerdictResult; `why` is the reason given ("none": no reason).
checkAdversaryVerdictApplicable(input) ==
  IF input.currentStatus \in TERMINAL_STATES
  THEN [allowed |-> FALSE, why |-> "terminal"]
  ELSE IF input.currentStatus \notin ADVERSARY_GATE_ELIGIBLE_STATES
  THEN [allowed |-> FALSE, why |-> "status"]
  ELSE IF input.verdict = "pass" /\ hasTag(input.currentTags, ADVERSARY_PASS_TAG)
  THEN [allowed |-> FALSE, why |-> "already_passed"]
  ELSE [allowed |-> TRUE, why |-> "none"]

InitVerdict ==
  /\ GuardIdle /\ TrackerIdle /\ FilterIdle /\ ProducerIdle
  /\ arg \in AdversaryVerdictInputs
  /\ ret = NoRet
  /\ called = FALSE

\* The adversary's verdict arrives and is checked against the task.
CallCheckAdversaryVerdictApplicable ==
  /\ ~called
  /\ called' = TRUE
  /\ ret' = checkAdversaryVerdictApplicable(arg)
  /\ UNCHANGED <<arg, uncalled>>

NextVerdict == CallCheckAdversaryVerdictApplicable

SpecVerdict == InitVerdict /\ [][NextVerdict]_vars

\* ---------------- terminal-state-guard.ts: evaluateTerminalStateGuard (SpecEval)
\* Date.parse of a string that is no date.
NaN == 0 - 2

\* What Date.parse gives for producedAt and updatedAt.
ParsedTimes == (0..MaxTime) \cup {NaN}

isFinite(x) == x # NaN

\* The actions of the gate events of types.ts.
GateActions == {"queue_pending", "verdict_pass", "verdict_fail"}

EvalInputs ==
  [event : [action : GateActions, taskId : {"t1"}, producedAt : ParsedTimes],
   task : [id : {"t1"}, status : TASK_STATUSES, updatedAt : ParsedTimes]]

\* GuardResult of types.ts (the reason text left out).
EvalResult(verdict, event, task) ==
  [verdict |-> verdict, event |-> event, taskSnapshot |-> task]

\* The event is older than the task's last update.
EventOlder(event, task) ==
  /\ isFinite(event.producedAt)
  /\ isFinite(task.updatedAt)
  /\ event.producedAt < task.updatedAt

evaluateTerminalStateGuard_RejectStale(event, task) ==
  IF task.status \in TERMINAL_STATES \/ EventOlder(event, task)
  THEN EvalResult("reject_terminal", event, task)
  ELSE EvalResult("accept", event, task)

\* The branch for an older event is empty in the source: both ways lead to
\* the same return.
evaluateTerminalStateGuard(event, task) ==
  IF task.status \in TERMINAL_STATES
  THEN EvalResult("reject_terminal", event, task)
  ELSE IF EventOlder(event, task)
  THEN EvalResult("accept", event, task)
  ELSE EvalResult("accept", event, task)

isTaskInTerminalState(task) == task.status \in TERMINAL_STATES

InitEval ==
  /\ GuardIdle /\ TrackerIdle /\ FilterIdle /\ ProducerIdle
  /\ arg \in EvalInputs
  /\ ret = NoRet
  /\ called = FALSE

\* A gate event is evaluated against the task's snapshot.
CallEvaluateTerminalStateGuard ==
  /\ ~called
  /\ called' = TRUE
  /\ ret' = evaluateTerminalStateGuard(arg.event, arg.task)
  /\ UNCHANGED <<arg, uncalled>>

NextEval == CallEvaluateTerminalStateGuard

SpecEval == InitEval /\ [][NextEval]_vars

\* ================================================================ claims
Target(p) == evTask[ev[p]]

Returned(p) == pc[p] = "returned"

\* The ledger never reaches capacity, so it never evicts.
NoEviction == maxEntries > Cardinality(EventIds)

C2_AppliedAtMostOnce ==
  NoEviction => \A e \in EventIds : appliedCount[e] <= 1

\* C3: when every invocation slot delivered the same eventId once, against
\* a target that started non-terminal at version 1 and that nobody else
\* wrote, exactly one result is applied=true, the others are applied=false,
\* and the version was incremented once.
C3_ExactlyOneApplied ==
  (/\ fresh /\ NoEviction
   /\ \A p \in Procs : Returned(p) /\ ev[p] = "e1"
   /\ tasks["t1"].status # "done")
  => /\ Cardinality({p \in Procs : result[p].applied}) = 1
     /\ \A p \in Procs : ~result[p].applied => result[p].reason # "undefined"
     /\ tasks["t1"].version = 2

\* C4: two invocations with different eventIds on the same target that
\* observed the same version at lookup do not both return applied=true.
C4_OneTransitionPerVersion ==
  \A p, q \in Procs :
    (/\ p # q /\ fresh
     /\ Returned(p) /\ Returned(q)
     /\ ev[p] # ev[q] /\ Target(p) = Target(q)
     /\ expectedVersion[p] = expectedVersion[q])
    => ~(result[p].applied /\ result[q].applied)

\* C5: the guard's commit never changes a snapshot whose stored status is
\* done at the moment of the write.
C5_CommitNeverLeavesTerminal ==
  [][\A p \in Procs :
       (Commit(p) /\ IsDone(tasks, Target(p))) => tasks' = tasks]_vars

C9_CommitWritesTable ==
  [][\A p \in Procs :
       (Commit(p) /\ applied'[p] /\ evAction[ev[p]] \in KnownActions)
       => tasks'[Target(p)] =
            [status |-> IF evAction[ev[p]] \in {"challenge", "reject"}
                        THEN "review" ELSE "needs_clarification",
             version |-> expectedVersion[p] + 1,
             updatedAt |-> now]]_vars

C9_Witness ==
  \E p \in Procs :
    /\ Returned(p) /\ result[p].applied /\ wrote[p] = "matched"
    /\ evAction[ev[p]] = "reject"
    /\ expectedVersion[p] = 1
    /\ tasks[Target(p)].status = "review" /\ tasks[Target(p)].version = 2

\* C10 (as amended): an action outside the enumeration is not rejected;
\* its commit sets the status to review, as challenge does.
C10_UnknownActionMapsToReview ==
  [][\A p \in Procs :
       (Commit(p) /\ applied'[p] /\ evAction[ev[p]] \notin KnownActions)
       => /\ tasks'[Target(p)].status = "review"
          /\ tasks'[Target(p)].version = expectedVersion[p] + 1]_vars

\* C10 (as claimed): an event whose action is outside the enumeration is
\* rejected, so it is never applied.
C10_UnknownActionRejected ==
  \A p \in Procs :
    (Returned(p) /\ evAction[ev[p]] \notin KnownActions) => ~result[p].applied

C10_Witness ==
  \E p \in Procs :
    /\ Returned(p) /\ result[p].applied /\ wrote[p] = "matched"
    /\ evAction[ev[p]] \notin KnownActions
    /\ tasks[Target(p)].status = "review"

\* C11: an invocation that finds its target absent returns applied=false
\* with the not-found reason, leaves the store as it is (creates nothing)
\* and puts its eventId in the ledger; while that entry is in the ledger, a
\* later delivery of the eventId is answered as a duplicate without touching
\* the store, whether or not a task with that id exists by then.
C11_NotFoundMarksProcessed ==
  [][/\ (Lookup(SeqProc) /\ tasks[Target(SeqProc)] = null)
        => pc'[SeqProc] = "markNotFound" /\ tasks' = tasks
     /\ MarkNotFound(SeqProc)
        => /\ result'[SeqProc].applied = FALSE
           /\ result'[SeqProc].reason = "not_found"
           /\ tasks' = tasks
           /\ ev[SeqProc] \in LedgerIds(processed')
     /\ \A e \in EventIds :
          (SeqProcessEvent(e) /\ marked[e] = "not_found")
          => /\ pc'[SeqProc] = "returned"
             /\ result'[SeqProc].applied = FALSE
             /\ result'[SeqProc].reason = "duplicate"
             /\ tasks' = tasks]_vars

C11_Witness ==
  /\ Returned(SeqProc) /\ result[SeqProc].reason = "duplicate"
  /\ marked[ev[SeqProc]] = "not_found"
  /\ tasks[Target(SeqProc)] # null
  /\ tasks[Target(SeqProc)].status = "in_progress"

\* C12: a terminal-state suppression puts the eventId in the ledger, and
\* the next delivery of that eventId is answered by the idempotency gate
\* (duplicate), not by the terminal-state gate.
C12_TerminalMarksProcessed ==
  [][/\ \A p \in Procs :
          MarkTerminal(p)
          => /\ result'[p].applied = FALSE
             /\ result'[p].reason = "terminal"
             /\ tasks' = tasks
             /\ ev[p] \in LedgerIds(processed')
     /\ \A p \in Procs, e \in EventIds :
          (ProcessEvent(p, e) /\ marked[e] = "terminal")
          => /\ pc'[p] = "returned"
             /\ result'[p].applied = FALSE
             /\ result'[p].reason = "duplicate"]_vars

C12_Witness ==
  \E p \in Procs :
    /\ Returned(p) /\ result[p].reason = "duplicate"
    /\ marked[ev[p]] = "terminal"
    /\ IsDone(tasks, Target(p))

\* C13: a delivery whose eventId is in the ledger returns applied=false
\* (duplicate) at once: no store read or write follows, and neither the
\* store nor the ledger changes, whatever the target's status or existence.
C13_DuplicateNoMutation ==
  [][\A p \in Procs, e \in EventIds :
       (ProcessEvent(p, e) /\ e \in LedgerIds(processed))
       => /\ pc'[p] = "returned"
          /\ result'[p] = MkResult(FALSE, "duplicate", e)
          /\ tasks' = tasks
          /\ processed' = processed]_vars

C13_Witness ==
  \E p \in Procs :
    /\ Returned(p) /\ result[p].reason = "duplicate"
    /\ tasks[Target(p)] = null
    /\ processed = <<[id |-> ev[p], ts |-> 0]>>

Timestamp(led, k) == led[CHOOSE i \in 1..Len(led) : led[i].id = k].ts

\* C15: marking a key that is already in the ledger is a no-op: the ledger
\* reports the same keys before and after, and the key keeps its recorded
\* timestamp, at capacity too.
C15_RemarkIsNoOp ==
  [][\A k \in LedgerKeys :
       (LedgerMark(k) /\ k \in LedgerIds(processed))
       => /\ LedgerIds(processed') = LedgerIds(processed)
          /\ Timestamp(processed', k) = Timestamp(processed, k)]_vars

\* The least c with 10 * c >= m.
CeilTenth(m) == CHOOSE c \in 0..m : 10 * c >= m /\ 10 * (c - 1) < m

\* C16: a mark made with the entry count at or above maxEntries first evicts
\* exactly ceil(0.1 * maxEntries) entries (all, if fewer exist), the oldest
\* by first insertion, the others keeping their order; a mark made below
\* maxEntries evicts nothing. Then the key is inserted (at the end, unless
\* it survives in the ledger already).
C16_EvictionPolicy ==
  [][\A k \in LedgerKeys :
       LedgerMark(k)
       => LET n == Len(processed)
              r == IF n >= maxEntries THEN Min(CeilTenth(maxEntries), n) ELSE 0
              survivors == {processed[i].id : i \in (r + 1)..n}
          IN /\ \A i \in 1..(n - r) : processed'[i].id = processed[r + i].id
             /\ Len(processed') = (n - r) + (IF k \in survivors THEN 0 ELSE 1)
             /\ k \notin survivors => processed'[Len(processed')].id = k
             /\ lastMark'.evicted = {processed[i].id : i \in 1..r}]_vars

C16_Witness ==
  /\ maxEntries = BigCap
  /\ Cardinality(lastMark.evicted) = CeilTenth(BigCap)
  /\ CeilTenth(BigCap) > 1
  /\ Len(processed) = BigCap - CeilTenth(BigCap) + 1

\* C17: the ledger never holds more than maxEntries entries.
C17_BoundedRetention == Len(processed) <= maxEntries

\* C18: the id just marked is in the ledger when markProcessed returns,
\* eviction or not, so a redelivery of the most recently marked event is
\* answered as a duplicate and changes nothing.
C18_RecentStaysIdempotent ==
  [][/\ (MarkNotFound(SeqProc) \/ MarkTerminal(SeqProc) \/ MarkProcessed(SeqProc))
        => ev[SeqProc] \in LedgerIds(processed')
     /\ \A e \in EventIds :
          (SeqProcessEvent(e) /\ e = lastMark.id)
          => /\ pc'[SeqProc] = "returned"
             /\ result'[SeqProc].applied = FALSE
             /\ result'[SeqProc].reason = "duplicate"
             /\ tasks' = tasks]_vars

C18_Witness ==
  /\ Returned(SeqProc) /\ result[SeqProc].reason = "duplicate"
  /\ ev[SeqProc] = lastMark.id
  /\ lastMark.evicted # {}

\* An event that was applied and whose ledger entry is gone (evicted).
Replay(e) == appliedCount[e] >= 1 /\ e \notin LedgerIds(processed)

\* C19: a delivery of an event that was applied before and whose entry was
\* evicted is not answered as a duplicate: it goes on to the lookup, a
\* non-terminal target is taken to the apply step, the commit increments
\* the version again, and the result is applied=true a second time.
C19_ReplayAfterEvictionIsNew ==
  [][/\ \A e \in EventIds :
          (SeqProcessEvent(e) /\ Replay(e)) => pc'[SeqProc] = "getTask"
     /\ (/\ Lookup(SeqProc) /\ Replay(ev[SeqProc])
         /\ tasks[Target(SeqProc)] # null
         /\ tasks[Target(SeqProc)].status # "done")
        => /\ pc'[SeqProc] = "reread"
           /\ expectedVersion'[SeqProc] = tasks[Target(SeqProc)].version
     /\ (/\ Commit(SeqProc) /\ Replay(ev[SeqProc])
         /\ tasks[Target(SeqProc)] # null
         /\ tasks[Target(SeqProc)].version = expectedVersion[SeqProc])
        => /\ applied'[SeqProc]
           /\ tasks'[Target(SeqProc)].version = tasks[Target(SeqProc)].version + 1
     /\ (MarkProcessed(SeqProc) /\ Replay(ev[SeqProc]) /\ applied[SeqProc])
        => /\ result'[SeqProc].applied
           /\ appliedCount'[ev[SeqProc]] = 2]_vars

C19_Witness ==
  /\ Returned(SeqProc) /\ result[SeqProc].applied
  /\ appliedCount[ev[SeqProc]] = 2
  /\ directs = 0
  /\ tasks[Target(SeqProc)].version = 3

\* C20: every change of a stored snapshot raises its version by exactly 1.
C20_VersionStepsByOne ==
  [][\A t \in TaskIds :
       (tasks[t] # null /\ tasks'[t] # tasks[t])
       => tasks'[t].version = tasks[t].version + 1]_vars

\* C21: after a mark the id is in flight, after a clear it is not; neither
\* changes whether another id is in flight, and clearing an id that is not
\* in flight changes nothing.
C21_TrackerRoundTrip ==
  [][\A t \in TaskIds :
       /\ (markAdversaryInFlight(t) \/ markAdversaryInFlightWithTimestamp(t))
          => /\ t \in adversaryInFlightTaskIds'
             /\ \A u \in TaskIds \ {t} :
                  (u \in adversaryInFlightTaskIds') = isAdversaryInFlight(u)
       /\ clearAdversaryInFlight(t)
          => /\ t \notin adversaryInFlightTaskIds'
             /\ \A u \in TaskIds \ {t} :
                  (u \in adversaryInFlightTaskIds') = isAdversaryInFlight(u)
             /\ ~isAdversaryInFlight(t)
                => /\ adversaryInFlightTaskIds' = adversaryInFlightTaskIds
                   /\ adversaryInFlightTimestamps' = adversaryInFlightTimestamps]_vars

C21_Witness ==
  /\ lastTrOp.op = "clear" /\ lastTrOp.was
  /\ ~isAdversaryInFlight(lastTrOp.id)
  /\ \E u \in TaskIds : isAdversaryInFlight(u)

\* C22: a sweep leaves no id in flight whose most recent mark, by either
\* mark operation, is more than the staleness threshold old and was not
\* cleared since.
C22_StaleMarksReclaimed ==
  [][cleanupStaleAdversaryInFlight
     => \A t \in TaskIds :
          (/\ markedAt[t] # NoTimestamp
           /\ now - markedAt[t] > ADVERSARY_INFLIGHT_STALE_MS)
          => t \notin adversaryInFlightTaskIds']_vars

\* C23: a sweep keeps in flight every id whose most recent mark is less
\* than the staleness threshold old.
C23_YoungMarksSurvive ==
  [][cleanupStaleAdversaryInFlight
     => \A t \in TaskIds :
          (/\ isAdversaryInFlight(t)
           /\ markedAt[t] # NoTimestamp
           /\ now - markedAt[t] < ADVERSARY_INFLIGHT_STALE_MS)
          => t \in adversaryInFlightTaskIds']_vars

\* C24: a sweep that follows a sweep at the same time point, with no other
\* call in between, changes neither the in-flight set nor the timestamp map.
C24_SweepIdempotent ==
  [][(cleanupStaleAdversaryInFlight /\ lastTrOp.op = "sweep")
     => /\ adversaryInFlightTaskIds' = adversaryInFlightTaskIds
        /\ adversaryInFlightTimestamps' = adversaryInFlightTimestamps]_vars

C24_Witness ==
  /\ lastTrOp.op = "sweep" /\ lastTrOp.n = 2
  /\ lastTrOp.removed # {}

\* A gate marker: adversary:pass or adversary:pending, whatever the white
\* space around it and the case of its letters.
IsGateMarker(tag) == tag.word \in {"adversary:pass", "adversary:pending"}

KeepsOthers(tag) == ~IsGateMarker(tag)

\* C25: for a terminal status the filter returns the tags without the gate
\* markers, the other tags kept in their order.
C25_TerminalStripsMarkers ==
  (fCalled /\ fStatus \in {"done", "backlog"})
  => /\ fResult = SelectSeq(fTags, KeepsOthers)
     /\ \A i \in 1..Len(fResult) : ~IsGateMarker(fResult[i])

C25_Witness ==
  /\ fCalled /\ fStatus = "done"
  /\ Len(fTags) = 2 /\ Len(fResult) = 1
  /\ fTags[1].word = "adversary:pending" /\ fTags[1].lead /\ fTags[1].trail
  /\ fTags[1].upper
  /\ fResult[1].word = "adversary:passed"

\* C26: for review, in_progress, todo and needs_clarification the filter
\* returns the tag list as it is, gate markers included.
C26_NonTerminalUnchanged ==
  (fCalled /\ fStatus \in {"review", "in_progress", "todo", "needs_clarification"})
  => fResult = fTags

C26_Witness ==
  /\ fCalled /\ fStatus = "review"
  /\ Len(fTags) = 2
  /\ IsGateMarker(fTags[1]) /\ IsGateMarker(fTags[2])
  /\ fResult = fTags

\* C27: a status is terminal for the Gate Guard if and only if it is
\* terminal for the write filter.
C27_OneTerminalDefinition ==
  (fStatus \in TERMINAL_STATES) <=> (fStatus \in TERMINAL_TASK_STATUSES)

\* C28: once an invocation has finished, by returning or by a failure, an
\* event whose transition it committed is in the ledger (while the ledger
\* evicts nothing).
C28_EffectRecorded ==
  NoEviction
  => \A p \in Procs :
       (pc[p] \in {"returned", "threw"} /\ wrote[p] # "none")
       => ev[p] \in LedgerIds(processed)

\* The re-read of the apply step finds a conflict.
ConflictAtReread(p) ==
  \/ tasks[Target(p)] = null
  \/ tasks[Target(p)].version # expectedVersion[p]
  \/ tasks[Target(p)].status = "done"

\* C29: when the re-read finds the snapshot absent, at another version than
\* the one observed at lookup, or terminal, the invocation goes to its end
\* without calling updateTask, and the store is unchanged by it.
C29_RereadConflictNoWrite ==
  [][\A p \in Procs :
       /\ (Reread(p) /\ ConflictAtReread(p))
          => /\ pc'[p] = "markProcessed"
             /\ ~applied'[p]
             /\ tasks' = tasks
       /\ (MarkProcessed(p) /\ ~applied[p])
          => /\ wrote[p] = "none"
             /\ tasks' = tasks
             /\ result'[p].applied = FALSE]_vars

C29_Witness ==
  \E p \in Procs :
    /\ Returned(p) /\ result[p].reason = "conflict"
    /\ wrote[p] = "none"
    /\ expectedVersion[p] = 1
    /\ IsDone(tasks, Target(p)) /\ tasks[Target(p)].version = 1

\* C30: every status the guard writes is review or needs_clarification,
\* and a snapshot that becomes done was written by another writer.
C30_GuardNeverWritesTerminal ==
  [][/\ \A p \in Procs :
          (Commit(p) /\ applied'[p])
          => /\ tasks'[Target(p)].status \in {"review", "needs_clarification"}
             /\ tasks'[Target(p)].status \notin TERMINAL_STATES
     /\ \A t \in TaskIds :
          (IsDone(tasks', t) /\ ~IsDone(tasks, t)) => directs' = directs + 1]_vars

C30_Witness ==
  \E p \in Procs :
    /\ Returned(p) /\ result[p].applied
    /\ evAction[ev[p]] = "block"
    /\ tasks[Target(p)].status = "needs_clarification"
    /\ directs = 0

\* C31: every result returned carries the eventId and the taskId of the
\* event of the call, and it has a reason exactly when applied is false.
C31_ResultShape ==
  \A p \in Procs :
    Returned(p)
    => /\ result[p].eventId = ev[p]
       /\ result[p].taskId = evTask[ev[p]]
       /\ (result[p].reason # "undefined") <=> (result[p].applied = FALSE)

C31_Witness ==
  \E p, q \in Procs :
    /\ p # q /\ Returned(p) /\ Returned(q)
    /\ result[p].applied /\ result[p].reason = "undefined"
    /\ ~result[q].applied /\ result[q].reason = "duplicate"
    /\ result[q].eventId = "e1" /\ result[q].taskId = "t1"

\* C32: no adversary review message is produced for a task whose in-flight
\* mark is present: the loop queues a task and marks it only when the task
\* is not in flight.
C32_OneOutstandingPerTarget ==
  [][\A k \in Ticks :
       (ProducerReverify(k) /\ produced' # produced)
       => ~isAdversaryInFlight(TickTask(k))]_vars

\* The status of the task once the update is written.
StatusAfter == IF arg.hasRequestedStatus THEN arg.requestedStatus ELSE arg.currentStatus

\* C33: when the guard does not block and the status after the update is
\* terminal, the tags to be written (cleanedTags, else requestedTags) hold
\* no gate marker.
C33_NoMarkersOnTerminalWrite ==
  (called /\ ~ret.blocked /\ StatusAfter \in TERMINAL_STATES)
  => /\ ret.hasCleanedTags
        => \A i \in 1..Len(ret.cleanedTags) : ~IsGateMarker(ret.cleanedTags[i])
     /\ (~ret.hasCleanedTags /\ arg.hasRequestedTags)
        => \A i \in 1..Len(arg.requestedTags) : ~IsGateMarker(arg.requestedTags[i])

\* The tags the update comes with: the requested ones, else the current ones.
IncomingTags == IF arg.hasRequestedTags THEN arg.requestedTags ELSE arg.currentTags

\* C34: the guard blocks exactly when the current status is terminal, a
\* different status is requested and the incoming tags hold a gate marker.
C34_BlockedExactlyOnRegression ==
  called
  => (ret.blocked
      <=> /\ arg.currentStatus \in TERMINAL_STATES
          /\ arg.hasRequestedStatus /\ arg.requestedStatus # arg.currentStatus
          /\ \E i \in 1..Len(IncomingTags) : IsGateMarker(IncomingTags[i]))

C34_Witness ==
  /\ called /\ ret.blocked
  /\ arg.currentStatus = "done" /\ arg.requestedStatus = "in_progress"
  /\ ~arg.hasRequestedTags
  /\ arg.currentTags = <<Literal("feature"), Spaced("adversary:pending")>>

HasMarker(tags, w) == \E i \in 1..Len(tags) : tags[i].word = w

InEligible(task) == \E i \in 1..Len(ret.eligible) : ret.eligible[i] = task

\* C35: every task given is in eligible or has a skip reason, never both,
\* and it is eligible exactly when its status is review, its priority is
\* high or critical and it carries neither gate marker.
C35_QueueFilterPartitions ==
  called
  => \A i \in 1..Len(arg) :
       /\ InEligible(arg[i]) <=> (ret.skippedReasons[arg[i].id] = "none")
       /\ InEligible(arg[i])
          <=> /\ arg[i].status = "review"
              /\ arg[i].priority \in {"high", "critical"}
              /\ ~HasMarker(arg[i].tags, "adversary:pass")
              /\ ~HasMarker(arg[i].tags, "adversary:pending")

C35_Witness ==
  /\ called /\ Len(arg) = 2
  /\ ret.eligible = <<arg[2]>>
  /\ arg[2].tags = <<Literal("feature")>>
  /\ arg[1].status = "review" /\ arg[1].priority = "critical"
  /\ arg[1].tags = <<Spaced("adversary:pending")>>
  /\ ret.skippedReasons["t1"] = "pending" /\ ret.skippedReasons["t2"] = "none"

NotPending(tag) == tag.word # "adversary:pending"

\* C36: every staleCleanup entry is for a skipped task that carried
\* adversary:pending while not in review or already passed, and its
\* cleanedTags are the task's tags without the pending tags, in order.
C36_StaleCleanupEntries ==
  called
  => \A j \in 1..Len(ret.staleCleanup) :
       \E i \in 1..Len(arg) :
         /\ arg[i].id = ret.staleCleanup[j].id
         /\ ret.skippedReasons[arg[i].id] # "none"
         /\ ~InEligible(arg[i])
         /\ HasMarker(arg[i].tags, "adversary:pending")
         /\ arg[i].status # "review" \/ HasMarker(arg[i].tags, "adversary:pass")
         /\ ret.staleCleanup[j].cleanedTags = SelectSeq(arg[i].tags, NotPending)
         /\ ~HasMarker(ret.staleCleanup[j].cleanedTags, "adversary:pending")

C36_Witness ==
  /\ called /\ Len(arg) = 2 /\ Len(ret.staleCleanup) = 2
  /\ arg[1].status = "done"
  /\ arg[1].tags = <<Spaced("adversary:pending"), Literal("feature")>>
  /\ ret.staleCleanup[1].cleanedTags = <<Literal("feature")>>
  /\ arg[2].status = "review"
  /\ arg[2].tags = <<Literal("adversary:pass"), Literal("adversary:pending")>>
  /\ ret.staleCleanup[2].cleanedTags = <<Literal("adversary:pass")>>

\* C37: a verdict is allowed exactly on a task in review, except a pass
\* verdict on a task that already carries adversary:pass; every terminal
\* and every other status gives allowed=false.
C37_VerdictOnlyInReview ==
  called
  => /\ ret.allowed
        <=> /\ arg.currentStatus = "review"
            /\ ~(arg.verdict = "pass" /\ HasMarker(arg.currentTags, "adversary:pass"))
     /\ arg.currentStatus # "review" => ~ret.allowed

C37_Witness ==
  /\ called /\ ~ret.allowed
  /\ arg.currentStatus = "review" /\ arg.verdict = "pass"
  /\ arg.currentTags = <<Literal("feature"), Literal("adversary:pass")>>

\* C38: the verdict is reject_terminal exactly when the task is done and
\* accept otherwise, whatever the action and the two timestamps, and it
\* agrees with isTaskInTerminalState.
C38_VerdictFollowsStatusOnly ==
  called
  => /\ ret.verdict = "reject_terminal" <=> arg.task.status = "done"
     /\ ret.verdict = "accept" <=> arg.task.status # "done"
     /\ (ret.verdict = "reject_terminal") <=> isTaskInTerminalState(arg.task)

C38_Witness ==
  /\ called /\ ret.verdict = "accept"
  /\ arg.task.status = "review"
  /\ arg.event.action = "verdict_fail"
  /\ arg.event.producedAt = 0 /\ arg.task.updatedAt = 1

====
